---- MODULE Spec2Model ----
(***************************************************************************)
(* Model of catkin_pkg's topological ordering of packages                  *)
(* (src/catkin_pkg/topological_order.py).                                  *)
(*                                                                         *)
(* A state holds the arguments of one call of topological_order_packages,  *)
(* the dictionary decorators_by_name it builds, the                        *)
(* depends_for_topological_order attribute of every decorator, and the     *)
(* list ordered_packages built by _sort_decorated_packages.  Package names *)
(* are the one-letter strings "a" .. "d"; a dependency list is modelled by *)
(* the set of names it mentions, because the code reads nothing but d.name *)
(* of a dependency and collects the names in a set.                        *)
(***************************************************************************)
EXTENDS Integers, Sequences, FiniteSets, TLC

VARIABLES
    packages,                       \* argument: dict path -> Package
    whitelisted,                    \* argument: None or a list of names
    blacklisted,                    \* argument: None or a list of names
    decorators_by_name,             \* dict name -> _PackageDecorator
    depends_for_topological_order,  \* name -> set; no entry while the attribute is None
    ordered_packages,               \* the list _sort_decorated_packages builds
    error,                          \* the exception raised by the call, or NoError
    pc,                             \* position of the call
    call,                           \* 1 for the first call on these arguments, 2 for the second
    previous,                       \* what the first call returned
    initial_depends,                \* history: the closures as first computed (line 90)
    recursion_depth,                \* history: the deepest nesting of _add_recursive_run_depends
    underlay_packages,              \* keyword argument underlay_packages, if the caller passes it
    walk,                           \* find_package_paths: the state of its crawl
    manifest                        \* a Package and what its run_depends attribute gave

vars == <<packages, whitelisted, blacklisted, decorators_by_name,
          depends_for_topological_order, ordered_packages, error, pc, call,
          previous, initial_depends, recursion_depth, underlay_packages, walk,
          manifest>>

(***************************************************************************)
(* Bounds.                                                                 *)
(***************************************************************************)
\* The number of declarations of an input: dependency references, export
\* tags, filter entries and packages beyond the three at pa, pb, pc.
MaxDecls == 2

\* The nesting of _add_recursive_run_depends at which the model stops
\* recursing.
MaxNesting == 6

(***************************************************************************)
(* Python values.                                                          *)
(***************************************************************************)
None == "None"

\* An optional list argument: None, or a list given by the names in it.
NoneList == [is_none |-> TRUE, items |-> {}]
ListOf(S) == [is_none |-> FALSE, items |-> S]

\* Every list taken for false.
\* The test 'is not None' in place of the truth value.
ListTruthyWhenGiven(l) == ~l.is_none

ListTruthyNever(l) == FALSE

\* Truth value of an optional list: None and [] are false.
ListTruthy(l) == ~l.is_none /\ l.items # {}

\* The test 'is not None' in place of the truth value.
StrTruthyWhenGiven(s) == s # None

\* Truth value of None or a string: None and '' are false.
StrTruthy(s) == s # None /\ s # ""

Names == {"a", "b", "c", "d"}

\* Python's order of the one-letter names.
Ord(n) == CASE n = "a" -> 97 [] n = "b" -> 98 [] n = "c" -> 99 [] n = "d" -> 100

StrLess(x, y) == Ord(x) < Ord(y)

RECURSIVE InsertSorted(_, _)
InsertSorted(x, s) ==
    IF s = <<>> THEN <<x>>
    ELSE IF StrLess(Head(s), x) THEN <<Head(s)>> \o InsertSorted(x, Tail(s))
    ELSE <<x>> \o s

\* The list left as it is.
SortNamesUnsorted(s) == s

\* list.sort() and sorted() on a list of names.
RECURSIVE SortNames(_)
SortNames(s) == IF s = <<>> THEN <<>> ELSE InsertSorted(Head(s), SortNames(Tail(s)))

\* sep.join(s)
RECURSIVE Join(_, _)
Join(sep, s) ==
    IF s = <<>> THEN ""
    ELSE IF Len(s) = 1 THEN s[1]
    ELSE s[1] \o sep \o Join(sep, Tail(s))

\* The orders in which a dictionary with the keys S may be iterated.
RECURSIVE Orderings(_)
Orderings(S) ==
    IF S = {} THEN {<<>>}
    ELSE UNION {{<<x>> \o t : t \in Orderings(S \ {x})} : x \in S}

\* dict with one key deleted
DelKey(d, k) == [x \in (DOMAIN d) \ {k} |-> d[x]]

\* dict with d[k] = v set
SetKey(d, k, v) == [x \in (DOMAIN d) \cup {k} |-> IF x = k THEN v ELSE d[x]]

EmptyDict == <<>>

(***************************************************************************)
(* _PackageDecorator                                                       *)
(***************************************************************************)
MessageGeneratorTag == "message_generator"
MetapackageTag == "metapackage"

\* _PackageDecorator.__init__: depends_for_topological_order starts as
\* None, which is the absence of an entry in the variable of that name.
PackageDecorator(package, path) ==
    LET message_generators ==
            SelectSeq(package.exports, LAMBDA e : e.tagname = MessageGeneratorTag)
    IN [package |-> package,
        path |-> path,
        is_metapackage |-> \E i \in DOMAIN package.exports :
                               package.exports[i].tagname = MetapackageTag,
        message_generator |-> IF message_generators # <<>>
                              THEN message_generators[1].content
                              ELSE None]

Max(S) == CHOOSE x \in S : \A y \in S : y <= x

\* Line 44 without the test that leaves out the names already collected.
RunDependsToVisitUnguarded(decorators, name, added) ==
    {n \in decorators[name].package.run_depends : n \in DOMAIN decorators}

\* Line 44: the names _add_recursive_run_depends recurses into, fixed
\* when the call has added its own name and before it recurses.
RunDependsToVisit(decorators, name, added) ==
    {n \in decorators[name].package.run_depends :
         n \in DOMAIN decorators /\ n \notin added}

\* The call adds its own name and recurses into nothing.
AddRecursiveRunDependsNoRecursion(decorators, name, acc, level) ==
    [depends |-> acc.depends \cup {decorators[name].package.name},
     depth |-> Max({acc.depth, level})]

\* _add_recursive_run_depends of the decorator called name, called at
\* nesting level `level`.  acc.depends is the set passed in and acc.depth
\* the deepest nesting so far; the result is both after the call.  The
\* names to recurse into are visited one after the other, each seeing
\* what the earlier ones added.  run_depends is a list whose order the
\* model does not keep: the depth is the greatest over all orders, the
\* set is the same in all.  No call nests deeper than MaxNesting.
RECURSIVE AddRecursiveRunDepends(_, _, _, _)
RECURSIVE VisitRunDepends(_, _, _, _)
AddRecursiveRunDepends(decorators, name, acc, level) ==
    LET added == acc.depends \cup {decorators[name].package.name}
        todo == IF level >= MaxNesting THEN {}
                ELSE RunDependsToVisit(decorators, name, added)
    IN VisitRunDepends(decorators, todo,
                       [depends |-> added, depth |-> Max({acc.depth, level})],
                       level + 1)

VisitRunDepends(decorators, todo, acc, level) ==
    IF todo = {} THEN acc
    ELSE LET results ==
                 {VisitRunDepends(decorators, todo \ {n},
                                  AddRecursiveRunDepends(decorators, n, acc, level),
                                  level) : n \in todo}
         IN [depends |-> UNION {r.depends : r \in results},
             depth |-> Max({r.depth : r \in results})]

\* Line 31: the loop over the known build and buildtool dependencies.
RECURSIVE VisitBuildDepends(_, _, _)
VisitBuildDepends(decorators, todo, acc) ==
    IF todo = {} THEN acc
    ELSE LET results ==
                 {VisitBuildDepends(decorators, todo \ {n},
                                    AddRecursiveRunDepends(decorators, n, acc, 1)) : n \in todo}
         IN [depends |-> UNION {r.depends : r \in results},
             depth |-> Max({r.depth : r \in results})]

NoDepends == [depends |-> {}, depth |-> 0]

\* The build dependencies alone.
BuildSeedsWithoutBuildtool(decorators, name) ==
    {n \in decorators[name].package.build_depends : n \in DOMAIN decorators}

\* The package's own run dependencies as well.
BuildSeedsWithRunDepends(decorators, name) ==
    LET package == decorators[name].package
    IN {n \in package.build_depends \cup package.buildtool_depends \cup package.run_depends :
            n \in DOMAIN decorators}

\* Line 30: the names of the build and buildtool dependencies that are
\* known packages.
BuildSeeds(decorators, name) ==
    LET package == decorators[name].package
    IN {n \in package.build_depends \cup package.buildtool_depends :
            n \in DOMAIN decorators}

\* The closure seeded with the run dependencies instead of the build and
\* buildtool dependencies.
CalculateDependsFromRunDepends(decorators, name) ==
    LET package == decorators[name].package
        seeds == {n \in package.run_depends : n \in DOMAIN decorators}
    IN VisitBuildDepends(decorators, seeds, NoDepends)

\* The names of unknown build and buildtool dependencies kept.
CalculateDependsUnfiltered(decorators, name) ==
    LET package == decorators[name].package
        known == VisitBuildDepends(decorators, BuildSeeds(decorators, name), NoDepends)
    IN [depends |-> known.depends \cup package.build_depends \cup package.buildtool_depends,
        depth |-> known.depth]

\* calculate_depends_for_topological_order of the decorator called name:
\* the value it gives to depends_for_topological_order, and the deepest
\* nesting of _add_recursive_run_depends it causes.
CalculateDependsForTopologicalOrder(decorators, name) ==
    VisitBuildDepends(decorators, BuildSeeds(decorators, name), NoDepends)

(***************************************************************************)
(* topological_order_packages, lines 74-86: the loop that filters the      *)
(* packages and decorates them.                                            *)
(***************************************************************************)
NoError == [type |-> "", args |-> <<>>]
RuntimeError(name, first, second) ==
    [type |-> "RuntimeError", args |-> <<name, first, second>>]
IndexError == [type |-> "IndexError", args |-> <<>>]

\* Line 84: the keys of packages whose value equals the decorator found
\* under the same name.  A Package is compared with a _PackageDecorator.
PathWithSameName(pkgs, order, decorator) ==
    SelectSeq(order, LAMBDA p : pkgs[p] = decorator)

\* Lines 82-85: the exception raised for a package whose name is taken.
DuplicateError(pkgs, order, decorators, path) ==
    LET name == pkgs[path].name
        \* decorators_by_name is keyed by name: one value has this name
        packages_with_same_name ==
            {d \in {decorators[n] : n \in DOMAIN decorators} : d.package.name = name}
        found == CHOOSE d \in packages_with_same_name : TRUE
        path_with_same_name == PathWithSameName(pkgs, order, found)
    IN IF path_with_same_name = <<>> THEN IndexError
       ELSE RuntimeError(name, path_with_same_name[1], path)

\* The loop over packages.items() in the given order, from position i on.
RECURSIVE DecorateLoop(_, _, _, _, _, _)
DecorateLoop(pkgs, wl, bl, order, i, decorators) ==
    IF i > Len(order) THEN [decorators |-> decorators, error |-> NoError]
    ELSE LET path == order[i]
             package == pkgs[path]
         IN IF ListTruthy(wl) /\ package.name \notin wl.items
            THEN DecorateLoop(pkgs, wl, bl, order, i + 1, decorators)
            ELSE IF ListTruthy(bl) /\ package.name \in bl.items
            THEN DecorateLoop(pkgs, wl, bl, order, i + 1, decorators)
            ELSE IF \E n \in DOMAIN decorators : decorators[n].package.name = package.name
            THEN [decorators |-> decorators,
                  error |-> DuplicateError(pkgs, order, decorators, path)]
            ELSE DecorateLoop(pkgs, wl, bl, order, i + 1,
                              SetKey(decorators, package.name,
                                     PackageDecorator(package, path)))

(***************************************************************************)
(* _sort_decorated_packages: one iteration of the while loop.              *)
(***************************************************************************)
\* Line 106: the decorator has nothing left to wait for.
Ready(name) == depends_for_topological_order[name] = {}

\* Lines 103-110: the two lists the scan over packages.items() builds
\* when it meets the names in the given order.
MessageGenerators(order) ==
    SelectSeq(order, LAMBDA n : Ready(n) /\ StrTruthy(decorators_by_name[n].message_generator))

NonMessageGenerators(order) ==
    SelectSeq(order, LAMBDA n : Ready(n) /\ ~StrTruthy(decorators_by_name[n].message_generator))

\* Every ready package is a candidate.
CandidatesNoPriority(order) == SelectSeq(order, LAMBDA n : Ready(n))

\* Lines 112-115: the list the iteration chooses from.
Candidates(order) ==
    IF MessageGenerators(order) # <<>> THEN MessageGenerators(order)
    ELSE NonMessageGenerators(order)

\* The first candidate met, without sorting.
PickNameUnsorted(names) == names[1]

\* Lines 122-126: the name the iteration picks.
PickName(names) == SortNames(names)[1]

\* The remaining names joined in the order of iteration.
\* The payload with the alphabetically first remaining name only.
CyclePayloadFirstOnly(remaining) == Join(", ", <<Head(SortNames(remaining))>>)

CyclePayloadUnsorted(remaining) == Join(", ", remaining)

\* Line 118: what is reported for a circular dependency.
CyclePayload(remaining) == Join(", ", SortNames(remaining))

\* Every remaining closure emptied instead of one name removed.
RemoveDependsClear(depends, name) ==
    [n \in (DOMAIN depends) \ {name} |-> {}]

\* Lines 129-132: the attribute of the decorators that remain.
RemoveDepends(depends, name) ==
    [n \in (DOMAIN depends) \ {name} |-> depends[n] \ {name}]

(***************************************************************************)
(* Inputs.                                                                 *)
(***************************************************************************)
Package(name, build_depends, buildtool_depends, run_depends, exports) ==
    [name |-> name, build_depends |-> build_depends,
     buildtool_depends |-> buildtool_depends, run_depends |-> run_depends,
     exports |-> exports]

Export(tagname, content) == [tagname |-> tagname, content |-> content]

ExportChoices ==
    [generator |-> <<Export(MessageGeneratorTag, "cpp")>>,
     empty_generator |-> <<Export(MessageGeneratorTag, "")>>,
     metapackage |-> <<Export(MetapackageTag, "")>>]

BasePaths == {"pa", "pb", "pc"}
ExtraPath == "pd"
BaseName(p) == CASE p = "pa" -> "a" [] p = "pb" -> "b" [] p = "pc" -> "c" [] p = "pd" -> "d"

\* One declaration of an input.
Decls ==
    ({"build", "buildtool", "run"} \X (BasePaths \cup {ExtraPath}) \X Names)
    \cup ({"export"} \X (BasePaths \cup {ExtraPath}) \X DOMAIN ExportChoices)
    \cup ({"package"} \X {ExtraPath} \X Names)
    \cup ({"whitelisted", "blacklisted"} \X {"entry"} \X Names)
    \cup ({"whitelisted", "blacklisted"} \X {"empty"} \X {""})

\* The sets of at most k declarations.
RECURSIVE DeclSets(_)
DeclSets(k) ==
    IF k = 0 THEN {{}}
    ELSE LET smaller == DeclSets(k - 1)
         IN smaller \cup {D \cup {d} : D \in smaller, d \in Decls}

Of(D, kind, p) == {d[3] : d \in {e \in D : e[1] = kind /\ e[2] = p}}

\* A set of declarations describes an input when the extra package is
\* declared once if it is used, no package has two export lists, and an
\* empty filter list has no entries.
WellFormed(D) ==
    /\ Cardinality(Of(D, "package", ExtraPath)) <= 1
    /\ \A d \in D : d[2] = ExtraPath /\ d[1] # "package" => Of(D, "package", ExtraPath) # {}
    /\ \A p \in BasePaths \cup {ExtraPath} : Cardinality(Of(D, "export", p)) <= 1
    /\ \A f \in {"whitelisted", "blacklisted"} : Of(D, f, "empty") # {} => Of(D, f, "entry") = {}

FilterOf(D, f) ==
    IF Of(D, f, "entry") # {} THEN ListOf(Of(D, f, "entry"))
    ELSE IF Of(D, f, "empty") # {} THEN ListOf({})
    ELSE NoneList

PackageOf(D, p) ==
    Package(IF p = ExtraPath THEN CHOOSE n \in Of(D, "package", p) : TRUE ELSE BaseName(p),
            Of(D, "build", p), Of(D, "buildtool", p), Of(D, "run", p),
            IF Of(D, "export", p) = {} THEN <<>>
            ELSE ExportChoices[CHOOSE e \in Of(D, "export", p) : TRUE])

InputOf(D) ==
    [packages |-> [p \in BasePaths \cup (IF Of(D, "package", ExtraPath) # {}
                                         THEN {ExtraPath} ELSE {}) |-> PackageOf(D, p)],
     whitelisted |-> FilterOf(D, "whitelisted"),
     blacklisted |-> FilterOf(D, "blacklisted")]

GenericInputs == {InputOf(D) : D \in {E \in DeclSets(MaxDecls) : WellFormed(E)}}

\* The inputs of test/test_topological_order.py, with the package names
\* of the tests mapped to "a" .. "d" in alphabetical order.
\* test_topological_order_packages: a builds on c and runs on d, b builds on a.
OrderTestPackages ==
    [pa |-> Package("a", {"c"}, {}, {"d"}, <<>>),
     pb |-> Package("b", {"a"}, {}, {}, <<>>),
     pc |-> Package("c", {}, {}, {}, <<>>),
     pd |-> Package("d", {}, {}, {}, <<>>)]

OrderTestBlacklisted ==
    [packages |-> OrderTestPackages, whitelisted |-> NoneList,
     blacklisted |-> ListOf({"c"})]

OrderTestWhitelisted ==
    [packages |-> OrderTestPackages, whitelisted |-> ListOf({"a", "b", "c"}),
     blacklisted |-> NoneList]

\* test_sort_decorated_packages_cycles: mock1 .. mock4 are a .. d; a waits
\* for b, and b, c, d wait for each other in a circle.
CyclesTestInput ==
    [packages |-> [pa |-> Package("a", {"b"}, {}, {}, <<>>),
                   pb |-> Package("b", {"c"}, {}, {}, <<>>),
                   pc |-> Package("c", {"d"}, {}, {}, <<>>),
                   pd |-> Package("d", {"b"}, {}, {}, <<>>)],
     whitelisted |-> NoneList, blacklisted |-> NoneList]

\* The same with the cycle removed: d waits for nothing.
NoCyclesTestInput ==
    [packages |-> [pa |-> Package("a", {"b"}, {}, {}, <<>>),
                   pb |-> Package("b", {"c"}, {}, {}, <<>>),
                   pc |-> Package("c", {"d"}, {}, {}, <<>>),
                   pd |-> Package("d", {}, {}, {}, <<>>)],
     whitelisted |-> NoneList, blacklisted |-> NoneList]

\* test_topological_order_packages_cycles: a builds on b, b on c, c on a.
ThreeCycleTestInput ==
    [packages |-> [pa |-> Package("a", {"b"}, {}, {}, <<>>),
                   pb |-> Package("b", {"c"}, {}, {}, <<>>),
                   pc |-> Package("c", {"a"}, {}, {}, <<>>)],
     whitelisted |-> NoneList, blacklisted |-> NoneList]

\* test_topological_order_packages_with_underlay: a builds on b, which is
\* in the underlay and builds on c.
UnderlayTestInput ==
    [packages |-> [pa |-> Package("a", {"b"}, {}, {}, <<>>),
                   pc |-> Package("c", {}, {}, {}, <<>>)],
     whitelisted |-> NoneList, blacklisted |-> NoneList,
     underlay_packages |-> [pb |-> Package("b", {"c"}, {}, {}, <<>>)]]

\* The generic inputs with a package at the extra path, that package
\* passed as the underlay instead.
UnderlayInputs ==
    {[packages |-> [p \in BasePaths |-> input.packages[p]],
      whitelisted |-> input.whitelisted,
      blacklisted |-> input.blacklisted,
      underlay_packages |-> [p \in {ExtraPath} |-> input.packages[p]]] :
         input \in {i \in GenericInputs : ExtraPath \in DOMAIN i.packages}}
    \cup {UnderlayTestInput}

\* Run dependencies that form a cycle through every package and a
\* self-loop, entered from the build dependency of a.
RunCycleTestInput ==
    [packages |-> [pa |-> Package("a", {"b"}, {}, {"b"}, <<>>),
                   pb |-> Package("b", {}, {}, {"c"}, <<>>),
                   pc |-> Package("c", {}, {}, {"c", "d"}, <<>>),
                   pd |-> Package("d", {}, {}, {"a"}, <<>>)],
     whitelisted |-> NoneList, blacklisted |-> NoneList]

\* A chain of two packages next to a cycle of two others.
RemainderTestInput ==
    [packages |-> [pa |-> Package("a", {"b"}, {}, {}, <<>>),
                   pb |-> Package("b", {}, {}, {}, <<>>),
                   pc |-> Package("c", {"d"}, {}, {}, <<>>),
                   pd |-> Package("d", {}, {"c"}, {}, <<>>)],
     whitelisted |-> NoneList, blacklisted |-> NoneList]

TestInputs ==
    {OrderTestBlacklisted, OrderTestWhitelisted, CyclesTestInput,
     NoCyclesTestInput, ThreeCycleTestInput, RunCycleTestInput,
     RemainderTestInput}

(***************************************************************************)
(* The state machine.                                                      *)
(***************************************************************************)
\* A keyword argument the caller does not pass.
NotPassed == [passed |-> FALSE, value |-> EmptyDict]
Passed(v) == [passed |-> TRUE, value |-> v]

\* No Package object is looked at.
NoManifest == [pc |-> "idle", exec_depends |-> <<>>, build_export_depends |-> <<>>,
               run_depends |-> <<>>]

\* find_package_paths is not running.
NoWalk ==
    [pc |-> "idle", tree |-> EmptyDict, dirpath |-> <<>>, dirnames |-> <<>>,
     i |-> 0, paths |-> <<>>, todo |-> <<>>]

Init ==
    /\ \E input \in GenericInputs \cup TestInputs :
           /\ packages = input.packages
           /\ whitelisted = input.whitelisted
           /\ blacklisted = input.blacklisted
    /\ decorators_by_name = EmptyDict
    /\ depends_for_topological_order = EmptyDict
    /\ ordered_packages = <<>>
    /\ error = NoError
    /\ pc = "start"
    /\ call = 1
    /\ previous = <<>>
    /\ initial_depends = EmptyDict
    /\ recursion_depth = 0
    /\ underlay_packages = NotPassed
    /\ walk = NoWalk
    /\ manifest = NoManifest

\* topological_order_packages, lines 74-86.  A duplicate name raises and
\* ends the call.
Decorate ==
    /\ pc = "start"
    /\ ~underlay_packages.passed
    /\ \E order \in Orderings(DOMAIN packages) :
           LET r == DecorateLoop(packages, whitelisted, blacklisted, order, 1, EmptyDict)
           IN IF r.error = NoError
              THEN /\ decorators_by_name' = r.decorators
                   /\ pc' = "decorated"
                   /\ error' = error
              ELSE /\ decorators_by_name' = decorators_by_name
                   /\ pc' = "raised"
                   /\ error' = r.error
    /\ UNCHANGED <<packages, whitelisted, blacklisted, underlay_packages, walk,
                   manifest,
                   depends_for_topological_order,
                   ordered_packages, call, previous, initial_depends, recursion_depth>>

\* topological_order_packages, lines 89-92: every decorator computes its
\* closure, and _sort_decorated_packages is entered.
CalculateDepends ==
    /\ pc = "decorated"
    /\ LET calculated ==
               [n \in DOMAIN decorators_by_name |->
                    CalculateDependsForTopologicalOrder(decorators_by_name, n)]
       IN /\ depends_for_topological_order' =
                 [n \in DOMAIN decorators_by_name |-> calculated[n].depends]
          /\ recursion_depth' =
                 Max({0} \cup {calculated[n].depth : n \in DOMAIN decorators_by_name})
    /\ initial_depends' = depends_for_topological_order'
    /\ pc' = "sort"
    /\ UNCHANGED <<packages, whitelisted, blacklisted, underlay_packages, walk,
                   manifest,
                   decorators_by_name,
                   ordered_packages, error, call, previous>>

\* Lines 124-127 with every candidate appended, and the first deleted.
RECURSIVE EntriesOf(_)
EntriesOf(names) ==
    IF names = <<>> THEN <<>>
    ELSE <<<<decorators_by_name[Head(names)].path,
             decorators_by_name[Head(names)].package>>>> \o EntriesOf(Tail(names))

EmitAllCandidates ==
    /\ pc = "sort"
    /\ DOMAIN decorators_by_name # {}
    /\ \E order \in Orderings(DOMAIN decorators_by_name) :
           /\ Candidates(order) # <<>>
           /\ LET name == PickName(Candidates(order))
              IN /\ ordered_packages' =
                        ordered_packages \o EntriesOf(SortNames(Candidates(order)))
                 /\ decorators_by_name' = DelKey(decorators_by_name, name)
                 /\ depends_for_topological_order' =
                        RemoveDepends(depends_for_topological_order, name)
    /\ UNCHANGED <<packages, whitelisted, blacklisted, underlay_packages, walk,
                   manifest,
                   error, pc, call, previous, initial_depends, recursion_depth>>

\* _sort_decorated_packages, lines 101-115 and 121-132: an iteration that
\* finds a package to emit.
EmitPackage ==
    /\ pc = "sort"
    /\ DOMAIN decorators_by_name # {}
    /\ \E order \in Orderings(DOMAIN decorators_by_name) :
           /\ Candidates(order) # <<>>
           /\ LET name == PickName(Candidates(order))
              IN /\ ordered_packages' =
                        Append(ordered_packages,
                               <<decorators_by_name[name].path,
                                 decorators_by_name[name].package>>)
                 /\ decorators_by_name' = DelKey(decorators_by_name, name)
                 /\ depends_for_topological_order' =
                        RemoveDepends(depends_for_topological_order, name)
    /\ UNCHANGED <<packages, whitelisted, blacklisted, underlay_packages, walk,
                   manifest,
                   error, pc, call, previous,
                   initial_depends, recursion_depth>>

\* The sentinel appended without leaving the loop.
ReportCycleNoBreak ==
    /\ pc = "sort"
    /\ DOMAIN decorators_by_name # {}
    /\ \E order \in Orderings(DOMAIN decorators_by_name) :
           /\ Candidates(order) = <<>>
           /\ ordered_packages' = Append(ordered_packages, <<None, CyclePayload(order)>>)
    /\ UNCHANGED <<packages, whitelisted, blacklisted, underlay_packages, walk,
                   manifest,
                   decorators_by_name,
                   depends_for_topological_order, error, pc, call, previous,
                   initial_depends, recursion_depth>>

\* _sort_decorated_packages, lines 101-119 and 133: an iteration that
\* finds no package to emit reports the remaining names and returns.
ReportCycle ==
    /\ pc = "sort"
    /\ DOMAIN decorators_by_name # {}
    /\ \E order \in Orderings(DOMAIN decorators_by_name) :
           /\ Candidates(order) = <<>>
           /\ ordered_packages' = Append(ordered_packages, <<None, CyclePayload(order)>>)
    /\ pc' = "done"
    /\ UNCHANGED <<packages, whitelisted, blacklisted, underlay_packages, walk,
                   manifest,
                   decorators_by_name,
                   depends_for_topological_order, error, call, previous,
                   initial_depends, recursion_depth>>

\* _sort_decorated_packages, lines 101 and 133: nothing remains.
Return ==
    /\ pc = "sort"
    /\ DOMAIN decorators_by_name = {}
    /\ pc' = "done"
    /\ UNCHANGED <<packages, whitelisted, blacklisted, underlay_packages, walk,
                   manifest,
                   decorators_by_name,
                   depends_for_topological_order, ordered_packages, error, call,
                   previous, initial_depends, recursion_depth>>

\* The caller calls topological_order_packages a second time with the
\* same arguments.
CallAgain ==
    /\ pc = "done"
    /\ call = 1
    /\ call' = 2
    /\ previous' = ordered_packages
    /\ decorators_by_name' = EmptyDict
    /\ depends_for_topological_order' = EmptyDict
    /\ initial_depends' = EmptyDict
    /\ recursion_depth' = 0
    /\ ordered_packages' = <<>>
    /\ pc' = "start"
    /\ UNCHANGED <<packages, whitelisted, blacklisted, underlay_packages, walk,
                   manifest,
                   error>>

Next ==
    \/ Decorate
    \/ CalculateDepends
    \/ EmitPackage
    \/ ReportCycle
    \/ Return
    \/ CallAgain

Spec == Init /\ [][Next]_vars

(***************************************************************************)
(* Calls that pass the keyword argument underlay_packages, as              *)
(* test_topological_order_packages_with_underlay does.                     *)
(***************************************************************************)
TypeError(keyword) == [type |-> "TypeError", args |-> <<keyword>>]

InitUnderlay ==
    /\ \E input \in UnderlayInputs :
           /\ packages = input.packages
           /\ whitelisted = input.whitelisted
           /\ blacklisted = input.blacklisted
           /\ underlay_packages = Passed(input.underlay_packages)
    /\ decorators_by_name = EmptyDict
    /\ depends_for_topological_order = EmptyDict
    /\ ordered_packages = <<>>
    /\ error = NoError
    /\ pc = "start"
    /\ call = 1
    /\ previous = <<>>
    /\ initial_depends = EmptyDict
    /\ recursion_depth = 0
    /\ walk = NoWalk
    /\ manifest = NoManifest

\* topological_order_packages, line 62: the function has the parameters
\* packages, whitelisted and blacklisted; a call with another keyword
\* argument raises TypeError before the body runs.
CallWithUnderlay ==
    /\ pc = "start"
    /\ underlay_packages.passed
    /\ error' = TypeError("underlay_packages")
    /\ pc' = "raised"
    /\ UNCHANGED <<packages, whitelisted, blacklisted, underlay_packages, walk,
                   manifest,
                   decorators_by_name, depends_for_topological_order,
                   ordered_packages, call, previous, initial_depends,
                   recursion_depth>>

NextUnderlay == CallWithUnderlay

SpecUnderlay == InitUnderlay /\ [][NextUnderlay]_vars

(***************************************************************************)
(* find_package_paths (src/catkin_pkg/packages.py).                        *)
(*                                                                         *)
(* A directory name is the sequence of its characters, a path the          *)
(* sequence of the names from basepath down.  walk.tree gives every        *)
(* directory os.walk can reach its subdirectory names, in the order of the *)
(* listing, and its file names.  walk.todo holds the directories os.walk   *)
(* has yet to yield, walk.dirnames the list it yielded last, which the     *)
(* loop of lines 60-62 changes in place, and walk.i the position of that   *)
(* loop's iterator.                                                        *)
(***************************************************************************)
PackageManifestFilename == "package.xml"
CatkinIgnore == "CATKIN_IGNORE"

DotTest1 == <<".", "1">>
DotTest2 == <<".", "2">>
Test3 == <<"t", "3">>
DotTest4 == <<".", "4">>
Sub == <<"s">>
DirNames == {DotTest1, DotTest2, Test3, DotTest4}

\* str.startswith for a prefix of one character
StartsWith(name, prefix) == Len(name) >= 1 /\ name[1] = prefix

\* list.remove: the list without the first occurrence of x
RECURSIVE ListRemove(_, _)
ListRemove(l, x) ==
    IF l = <<>> THEN <<>>
    ELSE IF Head(l) = x THEN Tail(l)
    ELSE <<Head(l)>> \o ListRemove(Tail(l), x)

\* What a directory directly under basepath holds: a manifest, a
\* CATKIN_IGNORE file, or one subdirectory that holds a manifest.
DirKinds == {"package", "ignored", "nested"}

Directory(dirnames, filenames) == [dirnames |-> dirnames, filenames |-> filenames]

\* The tree with the given listing of basepath and kind of each entry.
TreeOf(listing, kind) ==
    [path \in {<<>>} \cup {<<listing[i]>> : i \in DOMAIN listing}
               \cup {<<listing[i], Sub>> : i \in {j \in DOMAIN listing : kind[listing[j]] = "nested"}} |->
        IF path = <<>> THEN Directory(listing, {})
        ELSE IF Len(path) = 2 THEN Directory(<<>>, {PackageManifestFilename})
        ELSE IF kind[path[1]] = "package" THEN Directory(<<>>, {PackageManifestFilename})
        ELSE IF kind[path[1]] = "ignored" THEN Directory(<<Sub>>, {CatkinIgnore})
        ELSE Directory(<<Sub>>, {})]

Trees ==
    UNION {{TreeOf(listing, kind) : listing \in Orderings(S), kind \in [S -> DirKinds]} :
               S \in SUBSET DirNames}

InitWalk ==
    /\ \E tree \in Trees :
           walk = [pc |-> "visit", tree |-> tree, dirpath |-> <<>>, dirnames |-> <<>>,
                   i |-> 0, paths |-> <<>>, todo |-> <<<<>>>>]
    /\ manifest = NoManifest
    /\ packages = EmptyDict
    /\ whitelisted = NoneList
    /\ blacklisted = NoneList
    /\ underlay_packages = NotPassed
    /\ decorators_by_name = EmptyDict
    /\ depends_for_topological_order = EmptyDict
    /\ ordered_packages = <<>>
    /\ error = NoError
    /\ pc = "idle"
    /\ call = 1
    /\ previous = <<>>
    /\ initial_depends = EmptyDict
    /\ recursion_depth = 0

orderVars ==
    <<packages, whitelisted, blacklisted, underlay_packages, decorators_by_name,
      depends_for_topological_order, ordered_packages, error, pc, call, previous,
      initial_depends, recursion_depth>>

\* Lines 52-59: os.walk yields the next directory; one with CATKIN_IGNORE
\* or with a manifest is not descended into, and the manifest's directory
\* is appended to paths.  Any other directory enters the loop of line 60.
VisitDirectory ==
    /\ walk.pc = "visit"
    /\ walk.todo # <<>>
    /\ LET dirpath == Head(walk.todo)
           dir == walk.tree[dirpath]
       IN walk' =
              IF CatkinIgnore \in dir.filenames
              THEN [walk EXCEPT !.dirpath = dirpath, !.dirnames = <<>>,
                                !.todo = Tail(walk.todo)]
              ELSE IF PackageManifestFilename \in dir.filenames
              THEN [walk EXCEPT !.dirpath = dirpath, !.dirnames = <<>>,
                                !.paths = Append(walk.paths, dirpath),
                                !.todo = Tail(walk.todo)]
              ELSE [walk EXCEPT !.dirpath = dirpath, !.dirnames = dir.dirnames,
                                !.i = 1, !.todo = Tail(walk.todo), !.pc = "filter"]
    /\ UNCHANGED <<orderVars, manifest>>

\* Lines 60-62: one iteration of the loop over dirnames.  The iterator
\* moves to the next position whether or not the list has lost an entry.
FilterDirname ==
    /\ walk.pc = "filter"
    /\ walk.i <= Len(walk.dirnames)
    /\ LET dirname == walk.dirnames[walk.i]
       IN walk' = [walk EXCEPT
                      !.dirnames = IF StartsWith(dirname, ".")
                                   THEN ListRemove(walk.dirnames, dirname)
                                   ELSE walk.dirnames,
                      !.i = walk.i + 1]
    /\ UNCHANGED <<orderVars, manifest>>

\* Line 60 when the iterator is exhausted: os.walk goes on with the
\* directories left in dirnames, before those it had still to visit.
Descend ==
    /\ walk.pc = "filter"
    /\ walk.i > Len(walk.dirnames)
    /\ walk' = [walk EXCEPT
                   !.todo = [k \in DOMAIN walk.dirnames |->
                                 Append(walk.dirpath, walk.dirnames[k])] \o walk.todo,
                   !.pc = "visit"]
    /\ UNCHANGED <<orderVars, manifest>>

\* Line 63: os.walk is exhausted.
ReturnPaths ==
    /\ walk.pc = "visit"
    /\ walk.todo = <<>>
    /\ walk' = [walk EXCEPT !.pc = "done"]
    /\ UNCHANGED <<orderVars, manifest>>

NextWalk ==
    \/ VisitDirectory
    \/ FilterDirname
    \/ Descend
    \/ ReturnPaths

SpecWalk == InitWalk /\ [][NextWalk]_vars

(***************************************************************************)
(* The call with the loop of lines 89-90 taken one decorator at a time:    *)
(* each step is one call of calculate_depends_for_topological_order, which *)
(* gives the decorator its set (line 28) and hands that set to             *)
(* _add_recursive_run_depends of its known build and buildtool             *)
(* dependencies (lines 30-31).                                             *)
(***************************************************************************)
MaxStepDecls == 1

\* The closures after the call on the decorator of the given name, when
\* every visited decorator adds to its own attribute as well.
ClosureWritesToVisited(decorators, depends, name) ==
    LET closure == CalculateDependsForTopologicalOrder(decorators, name).depends
    IN [n \in (DOMAIN depends) \cup {name} \cup closure |->
            IF n = name THEN closure
            ELSE IF n \in closure
            THEN (IF n \in DOMAIN depends THEN depends[n] ELSE {}) \cup {n}
            ELSE depends[n]]

\* Lines 28-31 and 42-45: the closures after the call on the decorator of
\* the given name.  The set created on line 28 is the only one the calls
\* add to.
ClosureWrites(decorators, depends, name) ==
    SetKey(depends, name, CalculateDependsForTopologicalOrder(decorators, name).depends)

StepInputs ==
    {InputOf(D) : D \in {E \in DeclSets(MaxStepDecls) : WellFormed(E)}} \cup TestInputs

InitStepwise ==
    /\ \E input \in StepInputs :
           /\ packages = input.packages
           /\ whitelisted = input.whitelisted
           /\ blacklisted = input.blacklisted
    /\ decorators_by_name = EmptyDict
    /\ depends_for_topological_order = EmptyDict
    /\ ordered_packages = <<>>
    /\ error = NoError
    /\ pc = "start"
    /\ call = 1
    /\ previous = <<>>
    /\ initial_depends = EmptyDict
    /\ recursion_depth = 0
    /\ underlay_packages = NotPassed
    /\ walk = NoWalk
    /\ manifest = NoManifest

\* Line 90: the next decorator computes its closure.
CalculateOne ==
    /\ pc = "decorated"
    /\ \E name \in (DOMAIN decorators_by_name) \ DOMAIN depends_for_topological_order :
           /\ depends_for_topological_order' =
                  ClosureWrites(decorators_by_name, depends_for_topological_order, name)
           /\ recursion_depth' =
                  Max({recursion_depth,
                       CalculateDependsForTopologicalOrder(decorators_by_name, name).depth})
    /\ UNCHANGED <<packages, whitelisted, blacklisted, underlay_packages, walk,
                   manifest,
                   decorators_by_name, ordered_packages, error, pc, call, previous,
                   initial_depends>>

\* Lines 89 and 92: every decorator has its closure, and
\* _sort_decorated_packages is entered.
SortDecorated ==
    /\ pc = "decorated"
    /\ DOMAIN decorators_by_name \subseteq DOMAIN depends_for_topological_order
    /\ initial_depends' = depends_for_topological_order
    /\ pc' = "sort"
    /\ UNCHANGED <<packages, whitelisted, blacklisted, underlay_packages, walk,
                   manifest,
                   decorators_by_name, depends_for_topological_order,
                   ordered_packages, error, call, previous, recursion_depth>>

NextStepwise ==
    \/ Decorate
    \/ CalculateOne
    \/ SortDecorated
    \/ EmitPackage
    \/ ReportCycle
    \/ Return
    \/ CallAgain

SpecStepwise == InitStepwise /\ [][NextStepwise]_vars

(***************************************************************************)
(* Package.run_depends (src/catkin_pkg/package.py).                        *)
(*                                                                         *)
(* manifest holds the exec_depends and build_export_depends lists of a     *)
(* Package object and, once the attribute was read, the list               *)
(* __getattr__('run_depends') returned.                                    *)
(***************************************************************************)
MaxDepends == 1

\* Dependency.__slots__
DependencySlots ==
    {"name", "version_lt", "version_lte", "version_eq", "version_gte", "version_gt",
     "condition", "evaluated_condition"}

\* Dependency.__init__: the slots not passed are None.
Dependency(name, version_gte, condition, evaluated_condition) ==
    [name |-> name, version_lt |-> None, version_lte |-> None, version_eq |-> None,
     version_gte |-> version_gte, version_gt |-> None, condition |-> condition,
     evaluated_condition |-> evaluated_condition]

\* Dependency.__eq__: every slot but evaluated_condition is equal.
DependencyEq(d, other) ==
    \A attr \in DependencySlots \ {"evaluated_condition"} : d[attr] = other[attr]

\* d in l, for a list of Dependency objects
DependencyIn(d, l) == \E k \in DOMAIN l : DependencyEq(l[k], d)

\* The list comprehension of line 120 without its condition.
RECURSIVE MergeDependsKeepingAll(_, _)
MergeDependsKeepingAll(depends, run_depends) ==
    IF depends = <<>> THEN run_depends
    ELSE MergeDependsKeepingAll(Tail(depends), Append(run_depends, Head(depends)))

\* Line 120: every dependency that is not in run_depends yet is appended.
RECURSIVE MergeDepends(_, _)
MergeDepends(depends, run_depends) ==
    IF depends = <<>> THEN run_depends
    ELSE MergeDepends(Tail(depends),
                      IF DependencyIn(Head(depends), run_depends)
                      THEN run_depends
                      ELSE Append(run_depends, Head(depends)))

\* Package.__getattr__('run_depends'), lines 115-121
RunDepends(package) ==
    MergeDepends(package.exec_depends \o package.build_export_depends, <<>>)

Dependencies ==
    {Dependency(name, version_gte, condition, evaluated_condition) :
         name \in {"a", "b"}, version_gte \in {None, "1.0"},
         condition \in {None, "$ROS_VERSION == 1"},
         evaluated_condition \in {None, "True"}}

DependencyLists == UNION {[1..k -> Dependencies] : k \in 0..MaxDepends}

InitRunDepends ==
    /\ \E exec_depends \in DependencyLists, build_export_depends \in DependencyLists :
           manifest = [pc |-> "parsed", exec_depends |-> exec_depends,
                       build_export_depends |-> build_export_depends,
                       run_depends |-> <<>>]
    /\ walk = NoWalk
    /\ packages = EmptyDict
    /\ whitelisted = NoneList
    /\ blacklisted = NoneList
    /\ underlay_packages = NotPassed
    /\ decorators_by_name = EmptyDict
    /\ depends_for_topological_order = EmptyDict
    /\ ordered_packages = <<>>
    /\ error = NoError
    /\ pc = "idle"
    /\ call = 1
    /\ previous = <<>>
    /\ initial_depends = EmptyDict
    /\ recursion_depth = 0

\* The caller reads package.run_depends.
GetRunDepends ==
    /\ manifest.pc = "parsed"
    /\ manifest' = [manifest EXCEPT !.run_depends = RunDepends(manifest), !.pc = "read"]
    /\ UNCHANGED <<orderVars, walk>>

NextRunDepends == GetRunDepends

SpecRunDepends == InitRunDepends /\ [][NextRunDepends]_vars

(***************************************************************************)
(* Vocabulary of the properties.                                           *)
(***************************************************************************)
IsSentinel(entry) == entry[1] = None

\* The positions of the normal entries of an output.
NormalIndexes(out) == {i \in DOMAIN out : ~IsSentinel(out[i])}

EmittedNames(out) == {out[i][2].name : i \in NormalIndexes(out)}

\* The names a sentinel payload reports: the set whose names, in some
\* order and joined with ', ', give the payload.
ReportedNames(payload) ==
    CHOOSE S \in SUBSET Names : \E o \in Orderings(S) : Join(", ", o) = payload

SentinelNames(out) ==
    UNION {ReportedNames(out[i][2]) : i \in (DOMAIN out) \ NormalIndexes(out)}

\* The packages of the working set the filters let through.
Survives(package) ==
    /\ ListTruthy(whitelisted) => package.name \in whitelisted.items
    /\ ListTruthy(blacklisted) => package.name \notin blacklisted.items

SurvivingPaths == {p \in DOMAIN packages : Survives(packages[p])}

HasDuplicates ==
    \E p, q \in SurvivingPaths : p # q /\ packages[p].name = packages[q].name

Ascending(s) == \A i, j \in DOMAIN s : i < j => StrLess(s[i], s[j])

(***************************************************************************)
(* C1  Topological validity: every name in the initially computed closure  *)
(* of a normal entry, other than the names a sentinel reports, belongs to  *)
(* a normal entry strictly earlier in the output.                          *)
(***************************************************************************)
TopologicalValidity ==
    \A i \in NormalIndexes(ordered_packages) :
        \A n \in initial_depends[ordered_packages[i][2].name]
                     \ SentinelNames(ordered_packages) :
            \E j \in NormalIndexes(ordered_packages) :
                j < i /\ ordered_packages[j][2].name = n

\* A finished call whose last normal entry had to wait for two others.
TopologicalValidityWitness ==
    /\ pc = "done"
    /\ \E i \in NormalIndexes(ordered_packages) :
           Cardinality(initial_depends[ordered_packages[i][2].name]) >= 2

(***************************************************************************)
(* C2  Duplicate rejection: when two surviving entries share a name, the   *)
(* call fails with the RuntimeError that reports the shared name and both  *)
(* keys, and returns nothing.                                              *)
(***************************************************************************)
DuplicateRejection ==
    (HasDuplicates /\ pc # "start") =>
        /\ pc = "raised"
        /\ ordered_packages = <<>>
        /\ error.type = "RuntimeError"
        /\ \E p, q \in SurvivingPaths :
               /\ p # q
               /\ packages[p].name = packages[q].name
               /\ error.args = <<packages[p].name, p, q>>

(***************************************************************************)
(* C3  A cycle is reported as data: without duplicate names the call never *)
(* raises, and it has a next step before the selection loop and in every   *)
(* iteration that finds no package ready; the output holds at most one     *)
(* sentinel, which is its last entry, and the loop has stopped.            *)
(***************************************************************************)
CycleIsData ==
    /\ ~HasDuplicates => error = NoError /\ pc # "raised"
    /\ (/\ ~HasDuplicates
        /\ pc # "done"
        /\ pc = "sort" => \A n \in DOMAIN decorators_by_name : ~Ready(n)) => ENABLED Next
    /\ \A i \in DOMAIN ordered_packages :
           IsSentinel(ordered_packages[i]) =>
               i = Len(ordered_packages) /\ pc = "done"

\* A finished call that emitted a package and then reported a cycle.
CycleIsDataWitness ==
    /\ pc = "done"
    /\ Len(ordered_packages) >= 2
    /\ IsSentinel(ordered_packages[Len(ordered_packages)])
    /\ ~IsSentinel(ordered_packages[1])

RECURSIVE WaitsFor(_, _)
WaitsFor(frontier, seen) ==
    LET more == (UNION {initial_depends[m] : m \in frontier}) \ seen
    IN IF more = {} THEN seen ELSE WaitsFor(more, seen \cup more)

OnCycle(n) == n \in WaitsFor({n}, {})

SentinelNamesOnlyCycle ==
    /\ \A i \in DOMAIN ordered_packages :
           IsSentinel(ordered_packages[i]) =>
               \A n \in ReportedNames(ordered_packages[i][2]) : OnCycle(n)
    /\ (pc = "done" /\ packages = CyclesTestInput.packages
            /\ whitelisted = NoneList /\ blacklisted = NoneList) =>
           /\ Len(ordered_packages) = 1
           /\ IsSentinel(ordered_packages[1])
           /\ ordered_packages[1][2] = "b, c, d"

(***************************************************************************)
(* C6  Cycle reporting completeness: for exactly three packages whose      *)
(* build dependencies form the cycle a -> b -> c -> a, the result is the   *)
(* single entry with key None and payload 'a, b, c'.                       *)
(***************************************************************************)
IsThreeCycle ==
    /\ DOMAIN packages = BasePaths
    /\ SurvivingPaths = BasePaths
    /\ packages["pa"].build_depends = {"b"}
    /\ packages["pb"].build_depends = {"c"}
    /\ packages["pc"].build_depends = {"a"}

ThreeCycleReported ==
    (pc = "done" /\ IsThreeCycle) =>
        /\ Len(ordered_packages) = 1
        /\ IsSentinel(ordered_packages[1])
        /\ ordered_packages[1][2] = "a, b, c"

\* The call on the three packages of the test has returned.
ThreeCycleReportedWitness ==
    /\ pc = "done"
    /\ IsThreeCycle
    /\ ordered_packages # <<>>

(***************************************************************************)
(* C7  Generator priority: an iteration that finds a ready message         *)
(* generator and a ready package that is none emits a message generator.   *)
(***************************************************************************)
\* The package has a message_generator export, and the first one has
\* content.
GeneratesMessages(package) ==
    \E i \in DOMAIN package.exports :
        /\ package.exports[i].tagname = "message_generator"
        /\ package.exports[i].content # ""
        /\ \A j \in 1..(i - 1) : package.exports[j].tagname # "message_generator"

ReadyNames ==
    {n \in DOMAIN decorators_by_name : depends_for_topological_order[n] = {}}

ReadyGenerators ==
    {n \in ReadyNames : GeneratesMessages(decorators_by_name[n].package)}

ReadyNonGenerators == ReadyNames \ ReadyGenerators

\* This step appends a normal entry.
Emits ==
    /\ Len(ordered_packages') = Len(ordered_packages) + 1
    /\ ~IsSentinel(ordered_packages'[Len(ordered_packages')])

Emitted == ordered_packages'[Len(ordered_packages')][2]

GeneratorPriority ==
    [][(pc = "sort" /\ ReadyGenerators # {} /\ ReadyNonGenerators # {}) =>
           (Emits /\ GeneratesMessages(Emitted))]_vars

\* A generator has just been emitted while a package that is none, with
\* a smaller name, was ready from the start and still waits its turn.
GeneratorPriorityWitness ==
    /\ pc = "sort"
    /\ ordered_packages # <<>>
    /\ GeneratesMessages(ordered_packages[Len(ordered_packages)][2])
    /\ \E n \in ReadyNonGenerators :
           /\ initial_depends[n] = {}
           /\ StrLess(n, ordered_packages[Len(ordered_packages)][2].name)

(***************************************************************************)
(* C8  Favoring message generators: when no message generator is ready, a  *)
(* ready package that a not yet emitted message generator waits for is     *)
(* emitted before every ready package no generator waits for, whatever     *)
(* the alphabetical order.                                                 *)
(***************************************************************************)
FavoredNames ==
    {n \in ReadyNames :
         \E g \in DOMAIN decorators_by_name :
             /\ GeneratesMessages(decorators_by_name[g].package)
             /\ n \in depends_for_topological_order[g]}

FavoringMessageGenerators ==
    [][(pc = "sort" /\ ReadyGenerators = {} /\ FavoredNames # {}) =>
           (Emits /\ Emitted.name \in FavoredNames)]_vars

(***************************************************************************)
(* C9  Alphabetic tie-break: every iteration that has candidates (the      *)
(* ready generators if there are any, else the ready packages) emits       *)
(* exactly one package, the candidate with the smallest name.              *)
(***************************************************************************)
CandidatePool == IF ReadyGenerators # {} THEN ReadyGenerators ELSE ReadyNonGenerators

SameEntry(e, f) ==
    /\ e[1] = f[1]
    /\ IsSentinel(e) = IsSentinel(f)
    /\ e[2] = f[2]

SameOutput(out1, out2) ==
    /\ Len(out1) = Len(out2)
    /\ \A i \in DOMAIN out1 : SameEntry(out1[i], out2[i])

Determinism ==
    (call = 2 /\ pc = "done" /\ ~HasDuplicates) =>
        SameOutput(ordered_packages, previous)

\* The second call has returned at least three entries.
DeterminismWitness ==
    /\ call = 2
    /\ pc = "done"
    /\ Len(ordered_packages) >= 3

(***************************************************************************)
(* C11  Closure correctness: the closure of a package is exactly its       *)
(* known build and buildtool dependencies and every known name reachable   *)
(* from them along run dependencies through known packages.                *)
(***************************************************************************)
\* The known packages: the names that were decorated.
KnownNames == DOMAIN initial_depends

\* The package of the filtered working set with the name n.
PackageNamed(n) ==
    packages[CHOOSE p \in SurvivingPaths : packages[p].name = n]

\* The least set that contains seen and every known run dependency of a
\* member.
RECURSIVE RunReachable(_, _)
RunReachable(frontier, seen) ==
    LET more == ((UNION {PackageNamed(m).run_depends : m \in frontier})
                     \cap KnownNames) \ seen
    IN IF more = {} THEN seen ELSE RunReachable(more, seen \cup more)

KnownSeeds(n) ==
    (PackageNamed(n).build_depends \cup PackageNamed(n).buildtool_depends)
        \cap KnownNames

ExpectedClosure(n) == RunReachable(KnownSeeds(n), KnownSeeds(n))

ClosureCorrectness ==
    \A n \in KnownNames : initial_depends[n] = ExpectedClosure(n)

\* A closure with a buildtool dependency and with a name reached only
\* along a run dependency.
ClosureCorrectnessWitness ==
    /\ pc = "sort"
    /\ \E n \in KnownNames : initial_depends[n] \ KnownSeeds(n) # {}
    /\ \E n \in KnownNames :
           (PackageNamed(n).buildtool_depends \cap KnownNames)
               \ PackageNamed(n).build_depends # {}

(***************************************************************************)
(* C12  External-dependency transparency: a name that is no known package  *)
(* is in no closure and causes no error; a package whose build and         *)
(* buildtool dependencies are all unknown has an empty closure and is      *)
(* ready in the first iteration.                                           *)
(***************************************************************************)
ExternalDependencyTransparency ==
    /\ ~HasDuplicates => error = NoError
    /\ \A n \in KnownNames :
           /\ initial_depends[n] \subseteq KnownNames
           /\ KnownSeeds(n) = {} =>
                  /\ initial_depends[n] = {}
                  /\ (pc = "sort" /\ ordered_packages = <<>>) => n \in ReadyNames

\* The first iteration is about to run, and a package has build
\* dependencies none of which is known.
ExternalDependencyTransparencyWitness ==
    /\ pc = "sort"
    /\ ordered_packages = <<>>
    /\ \E n \in KnownNames :
           /\ PackageNamed(n).build_depends \cup PackageNamed(n).buildtool_depends # {}
           /\ KnownSeeds(n) = {}

(***************************************************************************)
(* C13  Filter invisibility: a package whose name is on a non-empty        *)
(* deny-list or missing from a non-empty allow-list is no normal entry,    *)
(* is in no sentinel payload and in no closure; with c denied, a (which    *)
(* builds on c) is ordered first: pa, pd, pb.                              *)
(***************************************************************************)
Denied(n) ==
    \/ blacklisted.items # {} /\ n \in blacklisted.items
    \/ whitelisted.items # {} /\ n \notin whitelisted.items

OutputPaths(out) == [i \in DOMAIN out |-> out[i][1]]

FilterInvisibility ==
    /\ \A n \in Names :
           Denied(n) =>
               /\ n \notin EmittedNames(ordered_packages)
               /\ n \notin SentinelNames(ordered_packages)
               /\ n \notin DOMAIN decorators_by_name
               /\ \A m \in DOMAIN depends_for_topological_order :
                      n \notin depends_for_topological_order[m]
               /\ \A m \in KnownNames : n \notin initial_depends[m]
    /\ (pc = "done" /\ packages = OrderTestPackages
            /\ whitelisted = NoneList /\ blacklisted = ListOf({"c"})) =>
           OutputPaths(ordered_packages) = <<"pa", "pd", "pb">>

\* A call has returned an entry for a package that builds on the package
\* of a denied name.
FilterInvisibilityWitness ==
    /\ pc = "done"
    /\ \E i \in NormalIndexes(ordered_packages) :
           \E p \in DOMAIN packages :
               /\ Denied(packages[p].name)
               /\ packages[p].name \in ordered_packages[i][2].build_depends

(***************************************************************************)
(* C14  Complete output without cycle: an output without sentinel has      *)
(* exactly one entry for every package of the filtered working set, and    *)
(* each entry pairs the key of the working set with the descriptor         *)
(* supplied under that key.                                                *)
(***************************************************************************)
HasSentinel(out) == \E i \in DOMAIN out : IsSentinel(out[i])

CompleteOutput ==
    (pc = "done" /\ ~HasSentinel(ordered_packages)) =>
        /\ Len(ordered_packages) = Cardinality(SurvivingPaths)
        /\ {ordered_packages[i][1] : i \in DOMAIN ordered_packages} = SurvivingPaths
        /\ \A i \in DOMAIN ordered_packages :
               ordered_packages[i][2] = packages[ordered_packages[i][1]]

\* A call under a filter has returned two or more entries, one of them
\* for a package with an export.
CompleteOutputWitness ==
    /\ pc = "done"
    /\ ~HasSentinel(ordered_packages)
    /\ Len(ordered_packages) >= 2
    /\ SurvivingPaths # DOMAIN packages
    /\ \E i \in DOMAIN ordered_packages : ordered_packages[i][2].exports # <<>>

(***************************************************************************)
(* C15  Dependents wait for the run dependencies of their build            *)
(* dependencies: if b builds on a and a runs on d, all three known, then   *)
(* d is emitted before b whenever b is emitted.                            *)
(***************************************************************************)
DependentsWaitForRunDepends ==
    \A i \in NormalIndexes(ordered_packages) :
        \A a \in ordered_packages[i][2].build_depends \cap KnownNames :
            \A d \in PackageNamed(a).run_depends \cap KnownNames :
                \E j \in NormalIndexes(ordered_packages) :
                    j < i /\ ordered_packages[j][2].name = d

\* b has been emitted after d although b comes first in the alphabet,
\* and a, b, d are three packages.
DependentsWaitForRunDependsWitness ==
    /\ pc = "done"
    /\ \E i \in NormalIndexes(ordered_packages) :
           LET b == ordered_packages[i][2]
           IN \E a \in (b.build_depends \cap KnownNames) \ {b.name} :
                  \E d \in (PackageNamed(a).run_depends \cap KnownNames) \ {a, b.name} :
                      StrLess(b.name, d)

(***************************************************************************)
(* C16  A package's own run dependencies do not constrain it: a run        *)
(* dependency d of a that is not reachable from a's build and buildtool    *)
(* dependencies is not in a's closure, and a can be emitted before d; in   *)
(* the fixture with c denied, pa comes before pd and pb last.              *)
(***************************************************************************)
OwnRunDependsDoNotConstrain ==
    /\ \A a \in KnownNames :
           \A d \in PackageNamed(a).run_depends :
               d \notin ExpectedClosure(a) => d \notin initial_depends[a]
    /\ (pc = "done" /\ packages = OrderTestPackages
            /\ whitelisted = NoneList /\ blacklisted = ListOf({"c"})) =>
           /\ Len(ordered_packages) = 3
           /\ ordered_packages[1][1] = "pa"
           /\ ordered_packages[2][1] = "pd"
           /\ ordered_packages[3][1] = "pb"

\* A package has been emitted before a known package it runs on.
OwnRunDependsDoNotConstrainWitness ==
    /\ pc = "done"
    /\ \E i, j \in NormalIndexes(ordered_packages) :
           /\ i < j
           /\ ordered_packages[j][2].name \in ordered_packages[i][2].run_depends

(***************************************************************************)
(* C17  Underlay packages are never emitted: a call that is given an       *)
(* underlay uses its packages as dependency targets when it computes the   *)
(* closures, emits none of them, and does not filter them.                 *)
(***************************************************************************)
UnderlayNames ==
    {underlay_packages.value[p].name : p \in DOMAIN underlay_packages.value}

UnderlayNeverEmitted ==
    (underlay_packages.passed /\ pc # "start") =>
        /\ error = NoError
        /\ \A i \in NormalIndexes(ordered_packages) :
               ordered_packages[i][1] \notin DOMAIN underlay_packages.value
        /\ pc \in {"sort", "done"} =>
               \A p \in SurvivingPaths :
                   (packages[p].build_depends \cap UnderlayNames)
                       \subseteq initial_depends[packages[p].name]

(***************************************************************************)
(* C18  Ordering through the underlay: when working-set package a builds   *)
(* on underlay package b and b builds on working-set package c, the call   *)
(* returns and c is emitted before a; the test's output keys are pc, pa.   *)
(***************************************************************************)
Position(out, name) ==
    CHOOSE i \in NormalIndexes(out) : out[i][2].name = name

OrderingThroughUnderlay ==
    (underlay_packages.passed /\ pc # "start") =>
        /\ pc \in {"decorated", "sort", "done"}
        /\ pc = "done" =>
               /\ \A p, q \in SurvivingPaths :
                      (\E u \in DOMAIN underlay_packages.value :
                           /\ underlay_packages.value[u].name \in packages[p].build_depends
                           /\ packages[q].name \in underlay_packages.value[u].build_depends
                           /\ packages[p].name \in EmittedNames(ordered_packages))
                          => /\ packages[q].name \in EmittedNames(ordered_packages)
                             /\ Position(ordered_packages, packages[q].name)
                                    < Position(ordered_packages, packages[p].name)
               /\ (packages = UnderlayTestInput.packages
                       /\ underlay_packages.value = UnderlayTestInput.underlay_packages)
                      => OutputPaths(ordered_packages) = <<"pc", "pa">>

(***************************************************************************)
(* C19  find_package_paths returns no path in or below a directory whose   *)
(* name starts with '.', whatever the order of the listing; with           *)
(* packages in .test1, .test2, test3 and .test4 it returns ['test3'].      *)
(***************************************************************************)
IsHiddenPath(path) == \E k \in DOMAIN path : StartsWith(path[k], ".")

HiddenDirectoriesSkipped ==
    /\ \A k \in DOMAIN walk.paths : ~IsHiddenPath(walk.paths[k])
    /\ (walk.pc = "done"
            /\ {walk.tree[<<>>].dirnames[k] : k \in DOMAIN walk.tree[<<>>].dirnames} = DirNames
            /\ \A n \in DirNames : PackageManifestFilename \in walk.tree[<<n>>].filenames)
           => walk.paths = <<<<Test3>>>>

(***************************************************************************)
(* C20  The closure computation terminates when run dependencies form      *)
(* cycles or self-loops: the calls of _add_recursive_run_depends never     *)
(* nest deeper than the number of known packages, so the recursion ends    *)
(* of itself, below the depth at which the model cuts it.                  *)
(***************************************************************************)
RunCycleTermination ==
    /\ recursion_depth <= Cardinality(KnownNames)
    /\ recursion_depth < MaxNesting

\* A known package that reaches itself along run dependencies.
OnRunCycle(n) ==
    n \in RunReachable(PackageNamed(n).run_depends \cap KnownNames,
                       PackageNamed(n).run_depends \cap KnownNames)

\* Closures were computed over a run-dependency cycle of more than one
\* package and a self-loop, with calls nested as deep as there are known
\* packages.
RunCycleTerminationWitness ==
    /\ pc = "done"
    /\ \E n \in KnownNames : n \in PackageNamed(n).run_depends
    /\ \E n \in KnownNames : OnRunCycle(n) /\ n \notin PackageNamed(n).run_depends
    /\ recursion_depth = Cardinality(KnownNames)
    /\ recursion_depth >= 3

(***************************************************************************)
(* C21  The pending closure of a package never contains the package's own  *)
(* name unless the package lists its own name among its build or           *)
(* buildtool dependencies.                                                 *)
(***************************************************************************)
ListsItself(n) ==
    n \in PackageNamed(n).build_depends \cup PackageNamed(n).buildtool_depends

SelfInClosureOnlyIfListed ==
    \A n \in DOMAIN depends_for_topological_order :
        n \in depends_for_topological_order[n] => ListsItself(n)

\* C21 as the code has it: the own name is in the pending closure only of
\* a package that lists itself or that is reached along run dependencies
\* from one of its known build or buildtool dependencies.
ReachesItself(n) ==
    \E seed \in KnownSeeds(n) : n \in RunReachable({seed}, {seed})

SelfInClosureOnlyIfReached ==
    \A n \in DOMAIN depends_for_topological_order :
        n \in depends_for_topological_order[n] => ListsItself(n) \/ ReachesItself(n)

\* Closures were computed, one holds its own package's name because a
\* build dependency leads back along run dependencies, and another
\* package has run dependencies that lead back to it and stays out of its
\* own closure.
SelfInClosureOnlyIfReachedWitness ==
    /\ pc = "sort"
    /\ \E n \in DOMAIN depends_for_topological_order :
           /\ n \in depends_for_topological_order[n]
           /\ ~ListsItself(n)
    /\ \E n \in DOMAIN depends_for_topological_order :
           /\ n \notin depends_for_topological_order[n]
           /\ n \in RunReachable(PackageNamed(n).run_depends \cap KnownNames,
                                 PackageNamed(n).run_depends \cap KnownNames)

(***************************************************************************)
(* C22  The selection loop terminates: an iteration is always possible     *)
(* while the loop runs, every iteration appends one entry, a normal        *)
(* iteration takes exactly one package from the remaining set, a cycle     *)
(* iteration leaves the loop, and so the output never has more entries     *)
(* than there were decorated packages, the sentinel included.              *)
(***************************************************************************)
Remaining == DOMAIN decorators_by_name

LoopStep ==
    pc = "sort" =>
        /\ pc' \in {"sort", "done"}
        /\ pc' = "sort" =>
               /\ Cardinality(Remaining') = Cardinality(Remaining) - 1
               /\ Remaining' \subseteq Remaining
               /\ Len(ordered_packages') = Len(ordered_packages) + 1
               /\ ~IsSentinel(ordered_packages'[Len(ordered_packages')])
        /\ pc' = "done" =>
               /\ Remaining' = Remaining
               /\ IF Remaining = {}
                  THEN ordered_packages' = ordered_packages
                  ELSE /\ Len(ordered_packages') = Len(ordered_packages) + 1
                       /\ IsSentinel(ordered_packages'[Len(ordered_packages')])

SchedulerTermination ==
    /\ [](pc = "sort" =>
              /\ ENABLED (EmitPackage \/ ReportCycle \/ Return)
              /\ Len(ordered_packages) + Cardinality(Remaining) = Cardinality(KnownNames))
    /\ [](pc = "done" /\ error = NoError =>
              Len(ordered_packages) <= Cardinality(KnownNames))
    /\ [][LoopStep]_vars

\* The loop ended on a cycle after as many iterations as there were
\* decorated packages: all but one emitted, then the sentinel.
SchedulerTerminationWitness ==
    /\ pc = "done"
    /\ HasSentinel(ordered_packages)
    /\ Cardinality(KnownNames) >= 3
    /\ Len(ordered_packages) = Cardinality(KnownNames)

(***************************************************************************)
(* C23  During the selection loop every step leaves each remaining         *)
(* package's pending closure equal to or a subset of what it was; the      *)
(* only name a step removes is the name of the package it emits, and no    *)
(* name is ever added.                                                     *)
(***************************************************************************)
EmittedInStep == Remaining \ Remaining'

ShrinkingStep ==
    pc = "sort" =>
        /\ DOMAIN depends_for_topological_order' = Remaining'
        /\ \A n \in Remaining' :
               /\ depends_for_topological_order'[n] \subseteq depends_for_topological_order[n]
               /\ depends_for_topological_order[n] \ depends_for_topological_order'[n]
                      \subseteq EmittedInStep
               /\ depends_for_topological_order'[n] \subseteq initial_depends[n]

MonotoneShrinking == [][ShrinkingStep]_vars

\* In the loop, a remaining package has lost exactly the emitted names of
\* its closure and still waits for another name.
MonotoneShrinkingWitness ==
    /\ pc = "sort"
    /\ ordered_packages # <<>>
    /\ \E n \in Remaining :
           /\ depends_for_topological_order[n] # {}
           /\ depends_for_topological_order[n] # initial_depends[n]
           /\ initial_depends[n] \ depends_for_topological_order[n]
                  = initial_depends[n] \cap EmittedNames(ordered_packages)

(***************************************************************************)
(* C24  The remainder that is not held by the cycle is emitted before the  *)
(* sentinel: the sentinel is the last entry, the names of the normal       *)
(* entries before it and the names of its payload partition the filtered   *)
(* working set, every package the payload names still has a pending        *)
(* closure that is not empty and holds payload names only, and every       *)
(* package whose initial closure holds no payload name has been emitted.   *)
(***************************************************************************)
NamesBefore(out, i) == {out[j][2].name : j \in {k \in NormalIndexes(out) : k < i}}

SurvivingNames == {packages[p].name : p \in SurvivingPaths}

SharedNames ==
    {packages[p].name : p \in {q \in DOMAIN packages :
                                   \E r \in DOMAIN packages :
                                       r # q /\ packages[r].name = packages[q].name}}

AdmittedPaths == {p \in DOMAIN packages : ~Denied(packages[p].name)}

DuplicateGuardAfterFiltering ==
    (SharedNames # {} /\ \A n \in SharedNames : Denied(n)) =>
        /\ error = NoError
        /\ pc # "raised"
        /\ pc = "done" =>
               /\ {ordered_packages[i][1] : i \in NormalIndexes(ordered_packages)}
                      \subseteq AdmittedPaths
               /\ EmittedNames(ordered_packages) \cup SentinelNames(ordered_packages)
                      = {packages[p].name : p \in AdmittedPaths}

\* A call returned an order of the remaining package although two entries
\* of the working set share a name, which the deny-list removes.
DuplicateGuardAfterFilteringWitness ==
    /\ pc = "done"
    /\ error = NoError
    /\ SharedNames # {}
    /\ SharedNames \subseteq blacklisted.items
    /\ EmittedNames(ordered_packages) # {}

(***************************************************************************)
(* C26  Package.run_depends is the union of exec_depends and               *)
(* build_export_depends with duplicates collapsed by name: no two of its   *)
(* entries have the same name, also when the declarations differ in a      *)
(* version constraint or a condition.                                      *)
(***************************************************************************)
DeclaredDepends == manifest.exec_depends \o manifest.build_export_depends

IsUnionOfDeclared ==
    /\ \A k \in DOMAIN DeclaredDepends : DependencyIn(DeclaredDepends[k], manifest.run_depends)
    /\ \A k \in DOMAIN manifest.run_depends :
           \E j \in DOMAIN DeclaredDepends : manifest.run_depends[k] = DeclaredDepends[j]

RunDependsCollapsedByName ==
    manifest.pc = "read" =>
        /\ IsUnionOfDeclared
        /\ \A i, j \in DOMAIN manifest.run_depends :
               i # j => manifest.run_depends[i].name # manifest.run_depends[j].name

\* C26 as the code has it: duplicates are collapsed when they are equal in
\* the name, every version constraint and the condition; two entries of
\* one name differ in a version constraint or in the condition.
RunDependsCollapsedWhenEqual ==
    manifest.pc = "read" =>
        /\ IsUnionOfDeclared
        /\ \A i, j \in DOMAIN manifest.run_depends :
               i # j => ~DependencyEq(manifest.run_depends[i], manifest.run_depends[j])

\* run_depends was read and has two entries of one name.
RunDependsCollapsedWhenEqualWitness ==
    /\ manifest.pc = "read"
    /\ Len(manifest.run_depends) = 2
    /\ manifest.run_depends[1].name = manifest.run_depends[2].name

(***************************************************************************)
(* C27  Generator flag: a package counts as a generator in the selection   *)
(* loop exactly when it has an export named 'message_generator', so an     *)
(* iteration that finds a ready package with such an export, also one      *)
(* whose first message_generator export has empty content, and a ready     *)
(* package without one emits a package with such an export.                *)
(***************************************************************************)
HasMessageGeneratorExport(package) ==
    \E i \in DOMAIN package.exports : package.exports[i].tagname = "message_generator"

ReadyAnnotated ==
    {n \in ReadyNames : HasMessageGeneratorExport(decorators_by_name[n].package)}

GeneratorFlagByAnnotation ==
    [][(pc = "sort" /\ ReadyAnnotated # {} /\ ReadyNames \ ReadyAnnotated # {}) =>
           (Emits /\ HasMessageGeneratorExport(Emitted))]_vars

(***************************************************************************)
(* C28  Frame: a call leaves the caller's mapping and filter lists, and    *)
(* with them every package's dependency and export lists, as they were,    *)
(* the decorators and the output hold the caller's packages unchanged, and *)
(* the closure computation of one decorator gives that decorator its       *)
(* closure and changes no other decorator's.                               *)
(***************************************************************************)
ClosureFrame ==
    pc = "decorated" =>
        /\ \A n \in DOMAIN depends_for_topological_order :
               /\ n \in DOMAIN depends_for_topological_order'
               /\ depends_for_topological_order'[n] = depends_for_topological_order[n]
        /\ Cardinality((DOMAIN depends_for_topological_order')
                           \ DOMAIN depends_for_topological_order) <= 1
        /\ decorators_by_name' = decorators_by_name

ArgumentsFrame ==
    /\ packages' = packages
    /\ whitelisted' = whitelisted
    /\ blacklisted' = blacklisted
    /\ \A n \in DOMAIN decorators_by_name' :
           decorators_by_name'[n].package = packages[decorators_by_name'[n].path]
    /\ \A i \in NormalIndexes(ordered_packages') :
           ordered_packages'[i][2] = packages[ordered_packages'[i][1]]

FrameEffect == [][ArgumentsFrame /\ ClosureFrame]_vars

\* Between two calls of the loop of lines 89-90: a decorator has a closure
\* that names a decorator which has none yet, and another decorator has
\* its closure too.
FrameEffectWitness ==
    /\ pc = "decorated"
    /\ \E n, m \in DOMAIN depends_for_topological_order :
           /\ n # m
           /\ \E k \in depends_for_topological_order[n] :
                  k \notin DOMAIN depends_for_topological_order

(***************************************************************************)
(* C29  An empty allow-list or deny-list behaves exactly like an absent    *)
(* one: the filter loop gives what it gives when the empty list is         *)
(* replaced by None; with whitelisted=[] and no deny-list every package of *)
(* the working set is kept, and blacklisted=[] drops none.                 *)
(***************************************************************************)
IsEmptyList(l) == ~l.is_none /\ l.items = {}

AbsentIfEmpty(l) == IF IsEmptyList(l) THEN NoneList ELSE l

AllNames == {packages[p].name : p \in DOMAIN packages}

EmptyFilterLikeAbsent ==
    (pc \in {"decorated", "raised"} /\ (IsEmptyList(whitelisted) \/ IsEmptyList(blacklisted))) =>
        /\ \E order \in Orderings(DOMAIN packages) :
               LET absent == DecorateLoop(packages, AbsentIfEmpty(whitelisted),
                                          AbsentIfEmpty(blacklisted), order, 1, EmptyDict)
               IN /\ error = absent.error
                  /\ absent.error = NoError => decorators_by_name = absent.decorators
        /\ (pc = "decorated" /\ AbsentIfEmpty(whitelisted) = NoneList
                /\ AbsentIfEmpty(blacklisted) = NoneList) =>
               DOMAIN decorators_by_name = AllNames
        /\ (pc = "decorated" /\ IsEmptyList(blacklisted)) =>
               DOMAIN decorators_by_name =
                   {n \in AllNames : whitelisted.items # {} => n \in whitelisted.items}

\* The filter loop has kept every package of a call with whitelisted=[].
EmptyFilterLikeAbsentWitness ==
    /\ pc = "decorated"
    /\ IsEmptyList(whitelisted)
    /\ DOMAIN decorators_by_name = AllNames
    /\ Cardinality(AllNames) >= 3

\* C27 as the code has it: the flag is the content of the first
\* message_generator export and counts when it is not empty.  An iteration
\* emits the alphabetically first ready package whose flag counts, and
\* the alphabetically first ready package when there is none, whether or
\* not a ready package has a message_generator export with empty content.
First(S) == CHOOSE n \in S : \A m \in S \ {n} : StrLess(n, m)

GeneratorFlagByContent ==
    [][(pc = "sort" /\ ReadyNames # {}) =>
           /\ Emits
           /\ Emitted.name = IF ReadyGenerators # {} THEN First(ReadyGenerators)
                             ELSE First(ReadyNames)]_vars

\* A package without exports has just been emitted while a package whose
\* first message_generator export is empty was ready from the start and
\* still waits its turn.
GeneratorFlagByContentWitness ==
    /\ pc = "sort"
    /\ ordered_packages # <<>>
    /\ ordered_packages[Len(ordered_packages)][2].exports = <<>>
    /\ \E n \in ReadyNames :
           /\ initial_depends[n] = {}
           /\ HasMessageGeneratorExport(decorators_by_name[n].package)
           /\ ~GeneratesMessages(decorators_by_name[n].package)

(***************************************************************************)
(* C30  A cycle of run dependencies alone is not reported: when no         *)
(* package of the filtered working set has a build or buildtool dependency *)
(* on a known package, every closure is empty, no sentinel is emitted and  *)
(* the output is the generators in alphabetical order followed by the      *)
(* other packages in alphabetical order, also when run dependencies form a *)
(* cycle.  A sentinel is emitted only when every remaining package's       *)
(* closure holds a remaining package, possibly itself.                     *)
(***************************************************************************)
NoKnownSeeds == \A n \in KnownNames : KnownSeeds(n) = {}

GeneratorNames == {n \in KnownNames : GeneratesMessages(PackageNamed(n))}

\* The names of an output's entries, for an output without sentinel.
OutputNames(out) == [i \in DOMAIN out |-> out[i][2].name]

RunCycleNotReported ==
    /\ (pc \in {"sort", "done"} /\ error = NoError /\ NoKnownSeeds) =>
           /\ \A n \in KnownNames : initial_depends[n] = {}
           /\ ~HasSentinel(ordered_packages)
           /\ pc = "done" =>
                  \E generators \in Orderings(GeneratorNames),
                     others \in Orderings(KnownNames \ GeneratorNames) :
                      /\ Ascending(generators)
                      /\ Ascending(others)
                      /\ OutputNames(ordered_packages) = generators \o others
    /\ \A i \in DOMAIN ordered_packages :
           IsSentinel(ordered_packages[i]) =>
               /\ Remaining # {}
               /\ \A n \in Remaining :
                      depends_for_topological_order[n] \cap Remaining # {}

\* A call returned every package, in order, of a working set without a
\* known build or buildtool dependency in which a package reaches itself
\* along the run dependencies of another.
RunCycleNotReportedWitness ==
    /\ pc = "done"
    /\ error = NoError
    /\ NoKnownSeeds
    /\ Len(ordered_packages) = Cardinality(KnownNames)
    /\ \E n \in KnownNames : OnRunCycle(n) /\ n \notin PackageNamed(n).run_depends

====
